---------------------------- MODULE Spec2Model ----------------------------
(***************************************************************************)
(* Catalog backend: semantic search and personalised recommendations over  *)
(* the product table (app/crud/product.py) and the embedding service       *)
(* (app/services/embeddings.py).                                           *)
(*                                                                         *)
(* Numbers.  Similarity thresholds are kept in thousandths (0.4 is 400).   *)
(* Ratings are DECIMAL(3,2), kept in hundredths (4.50 is 450).  A score is *)
(* the record [num, sq] standing for num / sqrt(sq): a cosine similarity   *)
(* dot(q,p)/sqrt(|q|^2 |p|^2) is [num |-> dot, sq |-> |q|^2 |p|^2] and     *)
(* rating/5.0 is [num |-> rating, sq |-> 500^2].  Scores are compared      *)
(* exactly, by signs and squares.  Floating point rounding is not          *)
(* modelled.  Prices and order totals are DECIMAL(10,2), kept in           *)
(* hundredths (1.00 is 100); discounts are DECIMAL(5,2) percentages, kept   *)
(* in hundredths of a percent (15.00 % is 1500).                            *)
(***************************************************************************)
EXTENDS Integers, Sequences, FiniteSets

VARIABLES
    products,           \* the products table: id -> row
    ollama_available,   \* EmbeddingService._ollama_available: "None" | "True" | "False"
    last,               \* the call that has just returned, "idle" when none
    orders,             \* the orders table: id -> row
    requests            \* the POST /orders requests in progress, each at its step

vars == <<products, ollama_available, last, orders, requests>>

---------------------------------------------------------------------------
(* Bounds of the model *)

\* products of freely chosen rows at the head of a catalog
MaxVaried == 2
\* length of a wishlist passed to get_personalized_recommendations
MaxWishlist == 3
\* largest limit asked for
MaxLimit == 2
\* length of a raw query text given to _preprocess_query
MaxQueryLen == 4
\* rows of the orders table
MaxOrders == 2
\* units asked for in one order
MaxQuantity == 2
\* stock above which no further cancellation is followed
MaxStock == 3
\* POST /orders requests that run at the same time
MaxRequests == 2

---------------------------------------------------------------------------
(* Values *)

\* a NULL product_embedding
NullEmbedding == <<>>

\* an optional argument left at None (category: a string, prices: a number)
NoCategory == "<None>"
NoPrice == -1

\* embeddings are non-zero vectors, and no sum of them is the zero vector, so
\* that the cosine distance to a query vector or a centroid is defined
E1 == <<2, 1>>
E2 == <<1, 2>>
E3 == <<-2, 1>>

\* rows a product can hold: category is NOT NULL but may be the empty string,
\* rating is within the 0..5 of ProductBase, price is above 0, discount is
\* within 0..100 %, stock is not negative
Profiles ==
    << [embedding |-> E1, category |-> "Electronics", rating |-> 450, price |-> 100,
        discount |-> 1255, stock |-> 2],
       [embedding |-> E2, category |-> "Electronics", rating |-> 300, price |-> 200,
        discount |-> 1500, stock |-> 1],
       [embedding |-> E3, category |-> "Home", rating |-> 450, price |-> 100,
        discount |-> 0, stock |-> 0],
       [embedding |-> NullEmbedding, category |-> "Home", rating |-> 500, price |-> 300,
        discount |-> 0, stock |-> 2],
       [embedding |-> E1, category |-> "", rating |-> 100, price |-> 200,
        discount |-> 0, stock |-> 1] >>

NumProfiles == Len(Profiles)

\* thresholds asked for, in thousandths
MinSimilarities == {0, 40, 50, 400}

Strategies == {"semantic", "hybrid", "category", "unknown_value"}

\* how the datastore orders rows of equal sort key (the code leaves it open):
\* by ascending or by descending id; "error" is a query that raises
DbBehaviours == {"asc", "desc", "error"}

---------------------------------------------------------------------------
(* Scores *)

Min(a, b) == IF a <= b THEN a ELSE b
Max(a, b) == IF a >= b THEN a ELSE b

\* a / sqrt(A) >= b / sqrt(B), exactly
ScoreGE(x, y) ==
    LET a == x.num
        b == y.num
    IN  IF x.sq = y.sq THEN a >= b
        ELSE IF a >= 0
        THEN IF b < 0 THEN TRUE ELSE a * a * y.sq >= b * b * x.sq
        ELSE IF b >= 0 THEN FALSE ELSE a * a * y.sq <= b * b * x.sq

\* a threshold given in thousandths, as a score
ThresholdScore(t) == [num |-> t, sq |-> 1000 * 1000]

Dot(u, v) == LET RECURSIVE D(_)
                 D(i) == IF i = 0 THEN 0 ELSE u[i] * v[i] + D(i - 1)
             IN  D(Min(Len(u), Len(v)))

\* similarity_expr = 1 - cosine_distance(query, product_embedding)
Similarity(q, e) == [num |-> Dot(q, e), sq |-> Dot(q, q) * Dot(e, e)]

\* (Product.rating / 5.0)
NormalizedScore(rating) == [num |-> rating, sq |-> 500 * 500]


---------------------------------------------------------------------------
(* The datastore: rows, filters, ORDER BY ... DESC, LIMIT *)

Range(s) == {s[k] : k \in 1..Len(s)}

Ids(P) == DOMAIN P

\* the row that ORDER BY key DESC puts first among S: the largest key, and
\* among rows of equal key the one the datastore's own order puts first
\* (the lowest id under "asc", the highest under "desc"); found by one pass
\* over the ids 1..n
RECURSIVE FirstRow(_, _, _, _, _)
FirstRow(S, key, tie, i, best) ==
    IF i = 0
    THEN best
    ELSE IF /\ i \in S
            /\ \/ best = 0
               \/ ~ScoreGE(key[best], key[i])
               \/ (tie = "asc" /\ ScoreGE(key[i], key[best]))
         THEN FirstRow(S, key, tie, i - 1, i)
         ELSE FirstRow(S, key, tie, i - 1, best)

MaxId(S) == CHOOSE i \in S : \A j \in S : j <= i

\* query.order_by(key.desc()).limit(limit).all() over the rows S
RECURSIVE OrderByDescLimit(_, _, _, _)
OrderByDescLimit(S, key, tie, limit) ==
    IF S = {} \/ limit <= 0
    THEN <<>>
    ELSE LET first == FirstRow(S, key, tie, MaxId(S), 0)
         IN  <<first>> \o OrderByDescLimit(S \ {first}, key, tie, limit - 1)

\* [(product, float(score)) for product, score in results]
Scored(ids, key) == [k \in 1..Len(ids) |-> [id |-> ids[k], score |-> key[ids[k]]]]

---------------------------------------------------------------------------
(* CRUDProduct._get_popular_products *)

RatingKey(P) == [i \in Ids(P) |-> NormalizedScore(P[i].rating)]

\* variant: the order_by left out, the rows come in the datastore's own order
_get_popular_products_Unordered(P, limit, db) ==
    IF db = "error"
    THEN [raised |-> TRUE, caught |-> FALSE, result |-> <<>>, queried |-> TRUE]
    ELSE [raised |-> FALSE, caught |-> FALSE, queried |-> TRUE,
          result |-> Scored(OrderByDescLimit(Ids(P), [i \in Ids(P) |-> NormalizedScore(0)],
                                             db, limit),
                            RatingKey(P))]

_get_popular_products(P, limit, db) ==
    IF db = "error"
    THEN [raised |-> TRUE, caught |-> FALSE, result |-> <<>>, queried |-> TRUE]
    ELSE [raised |-> FALSE, caught |-> FALSE, queried |-> TRUE,
          result |-> Scored(OrderByDescLimit(Ids(P), RatingKey(P), db, limit),
                            RatingKey(P))]

---------------------------------------------------------------------------
(* CRUDProduct._recommend_by_category *)

\* [p.category for p in wishlist_products if p.category]
WishlistCategories(P, wishlist) ==
    LET all == [k \in 1..Len(wishlist) |-> P[wishlist[k]].category]
    IN  SelectSeq(all, LAMBDA c : c # "")

Count(s, x) == Cardinality({k \in 1..Len(s) : s[k] = x})

\* variant: the first category of the wishlist, whatever its count
MostCommon_First(categories) == categories[1]

\* Counter(categories).most_common(1)[0][0]: the largest count, the category
\* met first among those of equal count
MostCommon(categories) ==
    LET first == CHOOSE k \in 1..Len(categories) :
                 /\ \A m \in 1..Len(categories) :
                        Count(categories, categories[m]) <= Count(categories, categories[k])
                 /\ \A m \in 1..(k - 1) :
                        Count(categories, categories[m]) < Count(categories, categories[k])
    IN  categories[first]

_recommend_by_category(P, wishlist, exclude_ids, limit, db) ==
    LET categories == WishlistCategories(P, wishlist)
    IN  IF categories = <<>>
        THEN [raised |-> FALSE, caught |-> FALSE, result |-> <<>>, queried |-> FALSE,
              category |-> NoCategory]
        ELSE LET most_common_category == MostCommon(categories)
                 rows == {i \in Ids(P) : /\ P[i].category = most_common_category
                                         /\ i \notin Range(exclude_ids)}
             IN  IF db = "error"
                 THEN [raised |-> TRUE, caught |-> FALSE, result |-> <<>>,
                       queried |-> TRUE, category |-> most_common_category]
                 ELSE [raised |-> FALSE, caught |-> FALSE, queried |-> TRUE,
                       result |-> Scored(OrderByDescLimit(rows, RatingKey(P), db, limit),
                                         RatingKey(P)),
                       category |-> most_common_category]

---------------------------------------------------------------------------
(* CRUDProduct._recommend_by_semantic_similarity *)

\* total_available < 20
SmallDatasetLimit == 20
\* max(0.05, ...), in thousandths
ThresholdFloor == 50

\* [p.product_embedding for p in wishlist_products if p.product_embedding is not None]
WishlistEmbeddings(P, wishlist) ==
    LET all == [k \in 1..Len(wishlist) |-> P[wishlist[k]].embedding]
    IN  SelectSeq(all, LAMBDA e : e # NullEmbedding)

\* zip(*embeddings) stops at the shortest vector
ZipLength(embeddings) ==
    CHOOSE n \in {Len(embeddings[k]) : k \in 1..Len(embeddings)} :
        \A k \in 1..Len(embeddings) : n <= Len(embeddings[k])

\* sum(dim) for each dim in zip(*embeddings)
RECURSIVE SumOver(_, _, _)
SumOver(embeddings, d, k) ==
    IF k = 0 THEN 0 ELSE embeddings[k][d] + SumOver(embeddings, d, k - 1)

\* variant: the sums are not divided by the number of embeddings
Centroid_Sum(embeddings) ==
    [sum |-> [d \in 1..ZipLength(embeddings) |->
                 SumOver(embeddings, d, Len(embeddings))],
     den |-> 1]

\* avg_embedding = [sum(dim) / len(embeddings) for dim in zip(*embeddings)],
\* kept as the vector of sums over the common denominator len(embeddings)
Centroid(embeddings) ==
    [sum |-> [d \in 1..ZipLength(embeddings) |->
                 SumOver(embeddings, d, Len(embeddings))],
     den |-> Len(embeddings)]

\* 1 - cosine_distance(avg_embedding, e): the cosine of sum/den is that of sum
CentroidSimilarity(avg, e) == Similarity(avg.sum, e)

\* Product.product_embedding.isnot(None), ~Product.id.in_(exclude_ids)
Candidates(P, exclude_ids) ==
    {i \in Ids(P) : P[i].embedding # NullEmbedding /\ i \notin Range(exclude_ids)}

\* variant: the halved threshold without the floor of 0.05
EffectiveThreshold_NoFloor(total_available, min_similarity) ==
    IF total_available < SmallDatasetLimit /\ min_similarity > 0
    THEN min_similarity \div 2
    ELSE min_similarity

\* variant: the small-dataset test written as total_available <= 20
EffectiveThreshold_OffByOne(total_available, min_similarity) ==
    IF total_available <= SmallDatasetLimit /\ min_similarity > 0
    THEN Max(ThresholdFloor, min_similarity \div 2)
    ELSE min_similarity

\* effective_threshold: halved, but not below 0.05, for a small dataset
EffectiveThreshold(total_available, min_similarity) ==
    IF total_available < SmallDatasetLimit /\ min_similarity > 0
    THEN Max(ThresholdFloor, min_similarity \div 2)
    ELSE min_similarity

\* the ranking query: the candidates, filtered by the threshold when it is > 0,
\* ORDER BY similarity DESC LIMIT limit
RankCandidates(rows, key, threshold, limit, tie) ==
    LET kept == IF threshold > 0
                THEN {i \in rows : ScoreGE(key[i], ThresholdScore(threshold))}
                ELSE rows
    IN  OrderByDescLimit(kept, key, tie, limit)

\* variant: no retry
NeedsRetry_Never(results, effective_threshold) == FALSE

\* the retry without threshold after an empty thresholded result
NeedsRetry(results, effective_threshold) ==
    results = <<>> /\ effective_threshold > 0

\* variant: a wishlist without embeddings is answered with the popular products
NoEmbeddingsResult_Popular(P, limit, db) ==
    [raised |-> db = "error", caught |-> FALSE, queried |-> TRUE, ranked |-> FALSE,
     result |-> _get_popular_products(P, limit, db).result]

\* if not embeddings: return [] (no query is sent to the datastore)
NoEmbeddingsResult(P, limit, db) ==
    [raised |-> FALSE, caught |-> FALSE, result |-> <<>>,
     queried |-> FALSE, ranked |-> FALSE]

_recommend_by_semantic_similarity(P, wishlist, exclude_ids, limit, min_similarity, db) ==
    LET embeddings == WishlistEmbeddings(P, wishlist)
    IN  IF embeddings = <<>>
        THEN NoEmbeddingsResult(P, limit, db)
        ELSE IF db = "error"
        THEN [raised |-> TRUE, caught |-> FALSE, result |-> <<>>,
              queried |-> TRUE, ranked |-> FALSE]
        ELSE
        LET avg_embedding == Centroid(embeddings)
            rows == Candidates(P, exclude_ids)
            key == [i \in rows |-> CentroidSimilarity(avg_embedding, P[i].embedding)]
            total_available == Cardinality(rows)
            effective_threshold == EffectiveThreshold(total_available, min_similarity)
            results == RankCandidates(rows, key, effective_threshold, limit, db)
            retry == NeedsRetry(results, effective_threshold)
            final == IF retry THEN RankCandidates(rows, key, 0, limit, db) ELSE results
        IN  [raised |-> FALSE,
             caught |-> FALSE,
             result |-> Scored(final, key),
             queried |-> TRUE,
             ranked |-> TRUE,
             avg_embedding |-> avg_embedding,
             total_available |-> total_available,
             effective_threshold |-> effective_threshold,
             no_threshold_retry |-> retry]

---------------------------------------------------------------------------
(* CRUDProduct.get_personalized_recommendations *)

\* variant: an unrecognised strategy ranks by category
StrategyBranch_UnknownIsCategory(strategy) ==
    IF strategy = "semantic" \/ strategy = "hybrid" THEN "semantic" ELSE "category"

\* the branch taken for a non-empty wishlist
StrategyBranch(strategy) ==
    IF strategy = "semantic" \/ strategy = "hybrid" THEN "semantic"
    ELSE IF strategy = "category" THEN "category"
    ELSE "semantic"

\* variant: the purchased ids are not added
ExcludeIds_WishlistOnly(wishlist, purchased) == wishlist

\* exclude_ids = [p.id for p in user_wishlist_products], extended by the
\* purchased ids when there are any
ExcludeIds(wishlist, purchased) ==
    IF purchased # <<>> THEN wishlist \o purchased ELSE wishlist

\* variant: exclude_ids is the caller's purchased list itself, extended in place
CallerListsAfter_Aliased(wishlist, purchased) ==
    [user_wishlist_products |-> wishlist,
     user_purchased_product_ids |-> IF purchased # <<>> THEN purchased \o wishlist
                                    ELSE purchased]

\* the caller's lists after the call: exclude_ids is a list of its own, built
\* by a comprehension, and extend() acts on it alone
CallerListsAfter(wishlist, purchased) ==
    [user_wishlist_products |-> wishlist,
     user_purchased_product_ids |-> purchased]

\* variant: the error is passed on
CatchRecommendationError_Reraise(r) == r

\* except Exception as e: ... return []
CatchRecommendationError(r) ==
    IF r.raised
    THEN [r EXCEPT !.result = <<>>, !.raised = FALSE, !.caught = TRUE]
    ELSE r

\* the body of the try block
RecommendationsBody(P, wishlist, purchased, limit, min_similarity, strategy, db) ==
    IF wishlist = <<>>
    THEN _get_popular_products(P, limit, db)
    ELSE LET exclude_ids == ExcludeIds(wishlist, purchased)
         IN  IF StrategyBranch(strategy) = "semantic"
             THEN _recommend_by_semantic_similarity(
                      P, wishlist, exclude_ids, limit, min_similarity, db)
             ELSE _recommend_by_category(P, wishlist, exclude_ids, limit, db)

\* variant: the ranking asks the service whether the provider is there, which
\* probes it (and finds it unreachable) when nothing is recorded
EmbeddingServiceUse_Probes(cache) ==
    [cache |-> IF cache = "None" THEN "False" ELSE cache,
     probed |-> cache = "None", posted |-> <<>>]

\* what get_personalized_recommendations and the three rankings ask of
\* embedding_service: nothing, the centroid is computed from the stored
\* embeddings
EmbeddingServiceUse(cache) ==
    [cache |-> cache, probed |-> FALSE, posted |-> <<>>]

\* which of the three rankings the call runs
RecommendationPath(wishlist, strategy) ==
    IF wishlist = <<>> THEN "popular" ELSE StrategyBranch(strategy)

get_personalized_recommendations(P, wishlist, purchased, limit, min_similarity, strategy, db) ==
    CatchRecommendationError(
        RecommendationsBody(P, wishlist, purchased, limit, min_similarity, strategy, db))


\* ProductWithScore: similarity_score: float = Field(..., ge=0, le=1); TRUE when
\* the validation of the score passes
ProductWithScore(similarity_score) ==
    /\ similarity_score.num >= 0
    /\ similarity_score.num * similarity_score.num <= similarity_score.sq

\* min_similarity of the response when the strategy is neither "semantic" nor
\* "hybrid": None
NoMinSimilarity == -1

\* GET /recommendations/personalized: the RecommendationResult built from the
\* pairs that get_personalized_recommendations returned
RecommendationResult(recommendations, limit, strategy, wishlist, min_similarity) ==
    [products |-> recommendations,
     total |-> Len(recommendations),
     limit |-> limit,
     strategy |-> strategy,
     wishlist_size |-> Len(wishlist),
     min_similarity |-> IF strategy \in {"semantic", "hybrid"}
                        THEN min_similarity ELSE NoMinSimilarity]


---------------------------------------------------------------------------
(* CRUDOrder.get_by_user and GET /recommendations/personalized *)

\* the default of get_by_user's limit
OrdersPageLimit == 100

\* the rows the datastore hands out for a query without ORDER BY come in an
\* order of its own: by ascending or by descending id
RowOrders == {"asc", "desc"}

Reverse(s) == [k \in 1..Len(s) |-> s[Len(s) + 1 - k]]

RECURSIVE Ascending(_)
\* the elements of a set of numbers, as a list
Ascending(S) ==
    IF S = {} THEN <<>>
    ELSE LET m == CHOOSE x \in S : \A y \in S : x <= y
         IN  <<m>> \o Ascending(S \ {m})

\* CRUDOrder.get_by_user: filter(user_id).offset(skip).limit(limit).all(); the
\* ids of the rows returned
get_by_user(O, user_id, skip, limit, row_order) ==
    LET mine == Ascending({j \in DOMAIN O : O[j].user_id = user_id})
        rows == IF row_order = "asc" THEN mine ELSE Reverse(mine)
    IN  SubSeq(rows, skip + 1, Min(Len(rows), skip + limit))

\* purchased_product_ids: None (here the empty list, which the ranking treats
\* alike) unless exclude_purchased, then list(set(o.product_id for o in
\* order.get_by_user(db, user_id)))
PurchasedProductIds(O, current_user, exclude_purchased, row_order) ==
    IF exclude_purchased
    THEN LET user_orders == get_by_user(O, current_user, 0, OrdersPageLimit, row_order)
         IN  Ascending({O[user_orders[k]].product_id : k \in 1..Len(user_orders)})
    ELSE <<>>

\* the endpoint: the ranking of product.get_personalized_recommendations, and
\* the response built from it; building a ProductWithScore from a score that
\* its validation refuses raises, and the request is answered with 500
personalized(P, O, wishlist, current_user, limit, strategy, min_similarity, exclude_purchased, row_order, db) ==
    LET purchased_product_ids ==
            PurchasedProductIds(O, current_user, exclude_purchased, row_order)
        r == get_personalized_recommendations(
                 P, wishlist, purchased_product_ids, limit, min_similarity, strategy, db)
        valid == \A k \in 1..Len(r.result) : ProductWithScore(r.result[k].score)
    IN  [purchased_product_ids |-> purchased_product_ids,
         out |-> r,
         status_code |-> IF valid THEN 200 ELSE 500,
         response |-> IF valid
                      THEN RecommendationResult(r.result, limit, strategy, wishlist,
                                                min_similarity)
                      ELSE [products |-> <<>>]]


---------------------------------------------------------------------------
(* The orders endpoints: create_order, update_order_status, cancel_order *)

\* the statuses that OrderStatusUpdate lets through
OrderStatuses == {"pending", "completed", "cancelled"}

\* db_product.price * (1 - db_product.discount / 100), in ten-thousandths of a
\* hundredth: the price is in hundredths, the discount in hundredths of a percent
UnitPrice(row) == row.price * (10000 - row.discount)

\* what the DECIMAL(10,2) column total_amount keeps of quantity * unit_price:
\* the nearest hundredth, either neighbour when the value lies half way
StoredTotals(quantity, unit_price) ==
    LET exact == quantity * unit_price
        below == exact \div 10000
        rest == exact % 10000
    IN  IF 2 * rest < 10000 THEN {below}
        ELSE IF 2 * rest > 10000 THEN {below + 1}
        ELSE {below, below + 1}

\* CRUDOrder.create_with_total: the new row is committed with status "pending"
create_with_total(O, product_id, quantity, user_id, total_amount) ==
    Append(O, [user_id |-> user_id, product_id |-> product_id, quantity |-> quantity,
               total_amount |-> total_amount, status |-> "pending"])

\* variant: an order for exactly the stock that is left is refused
InsufficientStock_OrEqual(row, quantity) == row.stock <= quantity

\* if db_product.stock < order_in.quantity
InsufficientStock(row, quantity) == row.stock < quantity

\* the checks of create_order: 404, 400, or 0 when the order goes ahead
CheckOrder(P, product_id, quantity) ==
    IF product_id \notin DOMAIN P THEN 404
    ELSE IF InsufficientStock(P[product_id], quantity) THEN 400
    ELSE 0

\* the stock column of a product changed by delta and committed
AddStock(P, product_id, delta) ==
    [P EXCEPT ![product_id].stock = P[product_id].stock + delta]

\* POST /orders, one request run from start to end
create_order(P, O, product_id, quantity, current_user, total_amount) ==
    LET refused == CheckOrder(P, product_id, quantity)
    IN  IF refused # 0
        THEN [status_code |-> refused, products |-> P, orders |-> O]
        ELSE [status_code |-> 201,
              products |-> AddStock(P, product_id, -quantity),
              orders |-> create_with_total(O, product_id, quantity, current_user,
                                           total_amount)]

\* CRUDOrder.update_status
update_status(O, order_id, status) ==
    IF order_id \in DOMAIN O THEN [O EXCEPT ![order_id].status = status] ELSE O

\* variant: a completed order can be given another status
CompletedIsFinal_Never(db_order, status) == FALSE

\* if db_order.status == "completed" and status_update.status != "completed"
CompletedIsFinal(db_order, status) ==
    db_order.status = "completed" /\ status # "completed"

\* if db_order.user_id != current_user.id
NotOwner(db_order, current_user) == db_order.user_id # current_user

\* PUT /orders/{order_id}/status
update_order_status(P, O, order_id, status, current_user) ==
    IF order_id \notin DOMAIN O
    THEN [status_code |-> 404, products |-> P, orders |-> O]
    ELSE IF NotOwner(O[order_id], current_user)
    THEN [status_code |-> 403, products |-> P, orders |-> O]
    ELSE IF CompletedIsFinal(O[order_id], status)
    THEN [status_code |-> 400, products |-> P, orders |-> O]
    ELSE [status_code |-> 200, products |-> P,
          orders |-> update_status(O, order_id, status)]

\* DELETE /orders/{order_id}
cancel_order(P, O, order_id, current_user) ==
    IF order_id \notin DOMAIN O
    THEN [status_code |-> 404, products |-> P, orders |-> O]
    ELSE IF NotOwner(O[order_id], current_user)
    THEN [status_code |-> 403, products |-> P, orders |-> O]
    ELSE IF O[order_id].status = "completed"
    THEN [status_code |-> 400, products |-> P, orders |-> O]
    ELSE IF O[order_id].status # "cancelled"
    THEN [status_code |-> 200,
          products |-> IF O[order_id].product_id \in DOMAIN P
                       THEN AddStock(P, O[order_id].product_id, O[order_id].quantity)
                       ELSE P,
          orders |-> update_status(O, order_id, "cancelled")]
    ELSE [status_code |-> 200, products |-> P, orders |-> O]

---------------------------------------------------------------------------
(* Text: a string is the sequence of its characters *)

Whitespace == {" ", "\t"}

UpperLetters == <<"A", "B", "G", "I", "L", "M", "N">>
LowerLetters == <<"a", "b", "g", "i", "l", "m", "n">>

\* str.lower() on one character
LowerChar(c) ==
    IF \E k \in 1..Len(UpperLetters) : UpperLetters[k] = c
    THEN LowerLetters[CHOOSE k \in 1..Len(UpperLetters) : UpperLetters[k] = c]
    ELSE c

\* str.lower()
Lower(text) == [k \in 1..Len(text) |-> LowerChar(text[k])]

\* str.strip()
RECURSIVE Strip(_)
Strip(text) ==
    IF text = <<>> THEN <<>>
    ELSE IF Head(text) \in Whitespace THEN Strip(Tail(text))
    ELSE IF text[Len(text)] \in Whitespace THEN Strip(SubSeq(text, 1, Len(text) - 1))
    ELSE text

\* str.split(): the maximal runs of characters that are not whitespace
RECURSIVE Split(_, _)
Split(text, word) ==
    IF text = <<>>
    THEN IF word = <<>> THEN <<>> ELSE <<word>>
    ELSE IF Head(text) \in Whitespace
         THEN IF word = <<>>
              THEN Split(Tail(text), <<>>)
              ELSE <<word>> \o Split(Tail(text), <<>>)
         ELSE Split(Tail(text), Append(word, Head(text)))

\* " ".join(words)
RECURSIVE Join(_)
Join(words) ==
    IF words = <<>> THEN <<>>
    ELSE IF Len(words) = 1 THEN words[1]
    ELSE words[1] \o <<" ">> \o Join(Tail(words))

\* variant: lower() left out
_preprocess_query_NoLower(query_text) ==
    IF query_text = <<>>
    THEN <<>>
    ELSE Join(Split(Strip(query_text), <<>>))

\* CRUDProduct._preprocess_query
_preprocess_query(query_text) ==
    IF query_text = <<>>
    THEN <<>>
    ELSE Lower(Join(Split(Strip(query_text), <<>>)))

---------------------------------------------------------------------------
(* EmbeddingService *)

\* 768 in the code; the vectors of the model have as many components as E1
EMBEDDING_DIMENSION == Len(E1)

\* what GET /api/tags can answer: 200 listing the model, 200 without it,
\* another status, or a RequestException (refused, timed out)
ProbeResponses == {"ok", "no_model", "http_error", "unreachable"}

\* product_embedding = Column(Vector(384)): the length the table's column
\* accepts, in the model the length of E1
ColumnDimension == Len(E1)

\* what POST /api/embed can answer: 200 with an embedding of the column's
\* length, 200 with an embedding of another length, another status, a
\* Timeout, or another RequestException
EmbedResponses == {"ok", "wrong_dimension", "http_error", "timeout", "unreachable"}

\* a stage of a call that the call never reached has no response
Unused == "unused"

QueryPrefix == "retrieval_query: "
DocumentPrefix == "retrieval_document: "

\* a vector the provider answers with when its model has another dimension
MismatchedVector == <<2, 1, 1>>

\* the vector the provider computes for a prefixed text
ProviderVector(prefixed_text) ==
    IF Head(prefixed_text) = QueryPrefix
    THEN IF "b" \in Range(prefixed_text) THEN E2 ELSE E3
    ELSE IF "b" \in Range(prefixed_text) THEN E1 ELSE E2

\* variant: a failed probe is not recorded
_check_ollama_ForgetsFailure(cache, probe) ==
    IF cache = "True"
    THEN [value |-> TRUE, cache |-> cache, probed |-> FALSE]
    ELSE IF probe = "ok"
         THEN [value |-> TRUE, cache |-> "True", probed |-> TRUE]
         ELSE [value |-> FALSE, cache |-> "None", probed |-> TRUE]

\* variant: a recorded failure is probed again
_check_ollama_RetriesWhenDown(cache, probe) ==
    IF cache = "True"
    THEN [value |-> TRUE, cache |-> cache, probed |-> FALSE]
    ELSE IF probe = "ok"
         THEN [value |-> TRUE, cache |-> "True", probed |-> TRUE]
         ELSE [value |-> FALSE, cache |-> "False", probed |-> TRUE]

\* EmbeddingService._check_ollama: the cached value when there is one, else
\* the probe, whose outcome is cached
_check_ollama(cache, probe) ==
    IF cache # "None"
    THEN [value |-> (cache = "True"), cache |-> cache, probed |-> FALSE]
    ELSE IF probe = "ok"
         THEN [value |-> TRUE, cache |-> "True", probed |-> TRUE]
         ELSE [value |-> FALSE, cache |-> "False", probed |-> TRUE]

\* variant: the request is sent whatever _check_ollama returned
Unavailable_Ignored(check) == FALSE

\* if not self._check_ollama(): raise RuntimeError
Unavailable(check) == ~check.value

\* EmbeddingService.generate_embedding
generate_embedding(text, is_query, cache, probe, embed) ==
    IF Strip(text) = <<>>
    THEN [raised |-> FALSE, embedding |-> [d \in 1..EMBEDDING_DIMENSION |-> 0],
          cache |-> cache, probed |-> FALSE, posted |-> <<>>]
    ELSE LET check == _check_ollama(cache, probe)
             prefix == IF is_query THEN QueryPrefix ELSE DocumentPrefix
             prefixed_text == <<prefix>> \o text
         IN  IF Unavailable(check)
             THEN [raised |-> TRUE, embedding |-> NullEmbedding,
                   cache |-> check.cache, probed |-> check.probed, posted |-> <<>>]
             ELSE IF embed = "ok"
             THEN [raised |-> FALSE, embedding |-> ProviderVector(prefixed_text),
                   cache |-> check.cache, probed |-> check.probed,
                   posted |-> prefixed_text]
             ELSE IF embed = "wrong_dimension"
             THEN [raised |-> FALSE, embedding |-> MismatchedVector,
                   cache |-> check.cache, probed |-> check.probed,
                   posted |-> prefixed_text]
             ELSE [raised |-> TRUE, embedding |-> NullEmbedding,
                   cache |-> check.cache, probed |-> check.probed,
                   posted |-> prefixed_text]

\* description[:80]
DescriptionPrefix == 80

\* ". ".join(parts)
RECURSIVE JoinParts(_)
JoinParts(parts) ==
    IF parts = <<>> THEN <<>>
    ELSE IF Len(parts) = 1 THEN parts[1]
    ELSE parts[1] \o <<".", " ">> \o JoinParts(Tail(parts))

\* EmbeddingService.generate_product_embedding: title, brand, color, category
\* and the stripped head of the description, those that are not empty, joined
\* and embedded as a document (a text that is None is the empty text here)
generate_product_embedding(title, description, category, brand, color, cache, probe, embed) ==
    LET desc_short == Strip(SubSeq(description, 1, Min(DescriptionPrefix, Len(description))))
        parts == SelectSeq(<<title, brand, color, category, desc_short>>,
                           LAMBDA t : t # <<>>)
        combined_text == JoinParts(parts)
    IN  generate_embedding(combined_text, FALSE, cache, probe, embed)

---------------------------------------------------------------------------
(* CRUDProduct.create and CRUDProduct.update *)

\* the fields of ProductCreate (ProductBase)
ProductCreateFields ==
    {"ean", "title", "product_description", "category", "subcategory", "price",
     "currency", "discount", "rating", "stock", "feature", "sponsored", "image_url"}

\* the fields of ProductUpdate
ProductUpdateFields == ProductCreateFields

\* the columns of Product
ProductColumns ==
    {"id", "ean", "title", "product_description", "category", "subcategory",
     "price", "currency", "discount", "rating", "stock", "feature", "sponsored",
     "image_url", "product_embedding", "created_at", "updated_at"}

\* the attributes create reads from obj_in, and update from db_obj, to build
\* the text of the embedding
EmbeddingAttributes == {"title", "product_description", "category", "brand", "color"}

\* embedding_fields = ['title', 'product_description', 'category', 'brand', 'color']
embedding_fields == {"title", "product_description", "category", "brand", "color"}

\* a category as a text
CategoryText(category) ==
    IF category = NoCategory \/ category = "" THEN <<>> ELSE <<category>>

\* what create and update leave behind when they raise: nothing is written
Raised(P, cache) ==
    [raised |-> TRUE, table |-> P, cache |-> cache, probed |-> FALSE,
     posted |-> <<>>, regenerated |-> FALSE]

\* what they leave behind after generate_product_embedding g and the commit
\* of table T: the commit refuses an embedding of another length than the
\* column's
Committed(P, T, g, id, regenerated) ==
    IF g.raised \/ (regenerated /\ Len(T[id].embedding) # ColumnDimension)
    THEN [raised |-> TRUE, table |-> P, cache |-> g.cache, probed |-> g.probed,
          posted |-> g.posted, regenerated |-> FALSE]
    ELSE [raised |-> FALSE, table |-> T, cache |-> g.cache, probed |-> g.probed,
          posted |-> g.posted, regenerated |-> regenerated]

\* CRUDProduct.create: reading an attribute that obj_in does not have raises
\* AttributeError before anything else is done
create(P, obj_in, cache, probe, embed) ==
    IF ~(EmbeddingAttributes \subseteq ProductCreateFields)
    THEN Raised(P, cache)
    ELSE LET g == generate_product_embedding(
                      obj_in.title, obj_in.product_description,
                      CategoryText(obj_in.category), <<>>, <<>>, cache, probe, embed)
             row == [embedding |-> g.embedding, category |-> obj_in.category,
                     rating |-> obj_in.rating, price |-> obj_in.price,
                     discount |-> obj_in.discount, stock |-> obj_in.stock]
         IN  Committed(P, Append(P, row), g, Len(P) + 1, TRUE)

\* the row after setattr of the fields of update_data that the table of the
\* model keeps
SetFields(row, update_data) ==
    [f \in DOMAIN row |-> IF f \in DOMAIN update_data THEN update_data[f] ELSE row[f]]

\* CRUDProduct.update: update_data holds the fields that were set; the
\* defaults of update_data.get(...) are read from db_obj whether they are
\* needed or not, and reading one that db_obj does not have raises
\* AttributeError
update(P, id, update_data, cache, probe, embed) ==
    LET needs_new_embedding == DOMAIN update_data \cap embedding_fields # {}
        NoEmbedding == [raised |-> FALSE, embedding |-> NullEmbedding, cache |-> cache,
                        probed |-> FALSE, posted |-> <<>>]
    IN  IF needs_new_embedding
        THEN IF ~(EmbeddingAttributes \subseteq ProductColumns)
             THEN Raised(P, cache)
             ELSE LET title == IF "title" \in DOMAIN update_data
                               THEN update_data.title ELSE <<>>
                      category == IF "category" \in DOMAIN update_data
                                  THEN update_data.category ELSE P[id].category
                      g == generate_product_embedding(
                               title, <<>>, CategoryText(category), <<>>, <<>>,
                               cache, probe, embed)
                      row == [SetFields(P[id], update_data) EXCEPT !.embedding = g.embedding]
                  IN  Committed(P, [P EXCEPT ![id] = row], g, id, TRUE)
        ELSE Committed(P, [P EXCEPT ![id] = SetFields(P[id], update_data)],
                       NoEmbedding, id, FALSE)

---------------------------------------------------------------------------
(* CRUDProduct.semantic_search *)

\* variant: the test without strip()
EmptyQuery_NoStrip(query_text) == query_text = <<>>

\* if not query_text or not query_text.strip()
EmptyQuery(query_text) == query_text = <<>> \/ Strip(query_text) = <<>>

\* the text handed to generate_embedding
EmbeddingInput(query_text) == _preprocess_query(query_text)

\* variant: the threshold filter left out
SearchRows_NoThreshold(P, key, category, min_price, max_price, min_similarity) ==
    {i \in Ids(P) :
        /\ P[i].embedding # NullEmbedding
        /\ (category # NoCategory /\ category # "") => P[i].category = category
        /\ min_price # NoPrice => P[i].price >= min_price
        /\ max_price # NoPrice => P[i].price <= max_price}

\* variant: the max_price filter left out
SearchRows_NoMaxPrice(P, key, category, min_price, max_price, min_similarity) ==
    {i \in Ids(P) :
        /\ P[i].embedding # NullEmbedding
        /\ min_similarity > 0 => ScoreGE(key[i], ThresholdScore(min_similarity))
        /\ (category # NoCategory /\ category # "") => P[i].category = category
        /\ min_price # NoPrice => P[i].price >= min_price}

\* variant: the threshold filter added whatever min_similarity is
SearchRows_AlwaysThreshold(P, key, category, min_price, max_price, min_similarity) ==
    {i \in Ids(P) :
        /\ P[i].embedding # NullEmbedding
        /\ ScoreGE(key[i], ThresholdScore(min_similarity))
        /\ (category # NoCategory /\ category # "") => P[i].category = category
        /\ min_price # NoPrice => P[i].price >= min_price
        /\ max_price # NoPrice => P[i].price <= max_price}

\* the rows of the search query: a non-null embedding, the threshold when it
\* is > 0, the filters that were given
SearchRows(P, key, category, min_price, max_price, min_similarity) ==
    {i \in Ids(P) :
        /\ P[i].embedding # NullEmbedding
        /\ min_similarity > 0 => ScoreGE(key[i], ThresholdScore(min_similarity))
        /\ (category # NoCategory /\ category # "") => P[i].category = category
        /\ min_price # NoPrice => P[i].price >= min_price
        /\ max_price # NoPrice => P[i].price <= max_price}

\* the body of the try block
SearchBody(P, cache, query_text, limit, category, min_price, max_price, min_similarity, probe, embed, db) ==
    IF EmptyQuery(query_text)
    THEN [raised |-> FALSE, caught |-> FALSE, result |-> <<>>, cache |-> cache,
          probed |-> FALSE, called |-> FALSE, embed_input |-> <<>>,
          posted |-> <<>>, queried |-> FALSE]
    ELSE LET processed_query == EmbeddingInput(query_text)
             g == generate_embedding(processed_query, TRUE, cache, probe, embed)
             embedded == {i \in Ids(P) : P[i].embedding # NullEmbedding}
             key == [i \in embedded |-> Similarity(g.embedding, P[i].embedding)]
             rows == SearchRows(P, key, category, min_price, max_price, min_similarity)
         IN  IF g.raised \/ Len(g.embedding) # ColumnDimension
             \* a query vector of another length than the column's is refused
             \* when the distance expression is bound, before any row is read
             THEN [raised |-> TRUE, caught |-> FALSE, result |-> <<>>,
                   cache |-> g.cache, probed |-> g.probed,
                   called |-> TRUE, embed_input |-> processed_query,
                   posted |-> g.posted, queried |-> FALSE]
             ELSE IF db = "error"
             THEN [raised |-> TRUE, caught |-> FALSE, result |-> <<>>,
                   cache |-> g.cache, probed |-> g.probed,
                   called |-> TRUE, embed_input |-> processed_query,
                   posted |-> g.posted, queried |-> TRUE]
             ELSE [raised |-> FALSE, caught |-> FALSE,
                   result |-> Scored(OrderByDescLimit(rows, key, db, limit), key),
                   cache |-> g.cache, probed |-> g.probed,
                   called |-> TRUE, embed_input |-> processed_query,
                   posted |-> g.posted, queried |-> TRUE]

\* variant: the error is passed on
CatchSearchError_Reraise(r) == r

\* except Exception as e: ... return []
CatchSearchError(r) ==
    IF r.raised
    THEN [r EXCEPT !.result = <<>>, !.raised = FALSE, !.caught = TRUE]
    ELSE r

semantic_search(P, cache, query_text, limit, category, min_price, max_price, min_similarity, probe, embed, db) ==
    CatchSearchError(
        SearchBody(P, cache, query_text, limit, category, min_price, max_price,
                   min_similarity, probe, embed, db))

---------------------------------------------------------------------------
(* States and inputs *)

RECURSIVE SeqsUpTo(_, _)
\* the sequences over S of length at most n
SeqsUpTo(S, n) ==
    IF n = 0
    THEN {<<>>}
    ELSE LET shorter == SeqsUpTo(S, n - 1)
         IN  shorter \cup {Append(q, x) : q \in shorter, x \in S}

NoRepeats(q) == \A a, b \in 1..Len(q) : q[a] = q[b] => a = b

NonDecreasing(q) == \A a \in 1..(Len(q) - 1) : q[a] <= q[a + 1]

\* tables of at most MaxVaried rows, each row any of Profiles (a table and
\* its renumberings behave alike, so one numbering of each is taken)
SmallCatalogs ==
    {[i \in 1..Len(h) |-> Profiles[h[i]]] :
        h \in {q \in SeqsUpTo(1..NumProfiles, MaxVaried) : NonDecreasing(q)}}

\* a table of n rows that runs through Profiles again and again
CycleCatalog(n) == [i \in 1..n |-> Profiles[((i - 1) % NumProfiles) + 1]]

\* 18 rows hold 15 embeddings; the larger table holds 23, of which 19 to 22
\* stay eligible next to a wishlist and a purchase
LargeCatalogs == {CycleCatalog(18), CycleCatalog(SmallDatasetLimit + 8)}

\* wishlists: products of the table, none twice (unique_user_product)
Wishlists(P) ==
    {w \in SeqsUpTo(Ids(P) \cap (1..MaxWishlist), MaxWishlist) : NoRepeats(w)}

\* purchased ids: none, or the newest product
PurchasedLists(P) == {<<>>} \cup {<<i>> : i \in Ids(P) \cap {Len(P)}}

QueryTexts ==
    { <<>>,
      <<" ", "\t">>,
      <<"a">>,
      <<" ", "A", " ", "\t", "B", " ">> }

SearchMinSimilarities == {0, 300, 900}

CategoryFilters == {NoCategory, "", "Electronics"}

PriceFilters == {<<NoPrice, NoPrice>>, <<200, NoPrice>>, <<NoPrice, 100>>}

Idle == [op |-> "idle"]

InitWith(catalogs) ==
    /\ products \in catalogs
    /\ ollama_available = "None"
    /\ last = Idle
    /\ orders = <<>>
    /\ requests = <<>>

---------------------------------------------------------------------------
(* Calls *)

\* a response is drawn for the stages the call reaches, and only for them
Reached(stage_reached, response) == stage_reached <=> response # Unused

CallRecommendations ==
    /\ last = Idle
    /\ \E wishlist \in Wishlists(products), purchased \in PurchasedLists(products),
          limit \in 1..MaxLimit, min_similarity \in MinSimilarities,
          strategy \in Strategies, db \in DbBehaviours \cup {Unused} :
          LET r == get_personalized_recommendations(
                       products, wishlist, purchased, limit, min_similarity, strategy, db)
              s == EmbeddingServiceUse(ollama_available)
          IN  /\ Reached(r.queried, db)
              /\ last' = [op |-> "recommend", wishlist |-> wishlist,
                          purchased |-> purchased, limit |-> limit,
                          min_similarity |-> min_similarity, strategy |-> strategy,
                          db |-> db, path |-> RecommendationPath(wishlist, strategy),
                          out |-> r, result |-> r.result,
                          lists_after |-> CallerListsAfter(wishlist, purchased),
                          cache_before |-> ollama_available,
                          probed |-> s.probed, posted |-> s.posted]
              /\ ollama_available' = s.cache
    /\ UNCHANGED <<products, orders, requests>>

CallSemanticSearch ==
    /\ last = Idle
    /\ \E query_text \in QueryTexts, limit \in 1..MaxLimit, category \in CategoryFilters,
          price \in PriceFilters, min_similarity \in SearchMinSimilarities,
          probe \in ProbeResponses \cup {Unused}, embed \in EmbedResponses \cup {Unused},
          db \in DbBehaviours \cup {Unused} :
          LET r == semantic_search(products, ollama_available, query_text, limit,
                                   category, price[1], price[2], min_similarity,
                                   probe, embed, db)
          IN  /\ Reached(r.probed, probe)
              /\ Reached(r.posted # <<>>, embed)
              /\ Reached(r.queried, db)
              /\ last' = [op |-> "search", query_text |-> query_text, limit |-> limit,
                          category |-> category, min_price |-> price[1],
                          max_price |-> price[2], min_similarity |-> min_similarity,
                          probe |-> probe, embed |-> embed, db |-> db,
                          out |-> r, result |-> r.result,
                          cache_before |-> ollama_available,
                          probed |-> r.probed, posted |-> r.posted]
              /\ ollama_available' = r.cache
    /\ UNCHANGED <<products, orders, requests>>

\* the texts of at most MaxQueryLen characters, and the spec's example
RawTexts ==
    SeqsUpTo({" ", "\t", "a", "B"}, MaxQueryLen)
        \cup {<<" ", " ", "L", "a", "p", "t", "o", "p", " ", " ", " ",
                "G", "A", "M", "I", "N", "G", " ">>}

CallPreprocessQuery ==
    /\ last = Idle
    /\ \E query_text \in RawTexts :
          last' = [op |-> "preprocess", query_text |-> query_text,
                   result |-> _preprocess_query(query_text)]
    /\ UNCHANGED <<products, ollama_available, orders, requests>>

\* the response is handed to the caller
Return ==
    /\ last # Idle
    /\ last' = Idle
    /\ UNCHANGED <<products, ollama_available, orders, requests>>

\* EmbeddingService.generate_embedding called on its own
CallGenerateEmbedding ==
    /\ last = Idle
    /\ \E text \in QueryTexts, is_query \in BOOLEAN,
          probe \in ProbeResponses \cup {Unused}, embed \in EmbedResponses \cup {Unused} :
          LET g == generate_embedding(text, is_query, ollama_available, probe, embed)
          IN  /\ Reached(g.probed, probe)
              /\ Reached(g.posted # <<>>, embed)
              /\ last' = [op |-> "embed", text |-> text, is_query |-> is_query,
                          probe |-> probe, embed |-> embed,
                          out |-> g, result |-> g.embedding,
                          cache_before |-> ollama_available,
                          probed |-> g.probed, posted |-> g.posted]
              /\ ollama_available' = g.cache
    /\ UNCHANGED <<products, orders, requests>>

\* EmbeddingService.is_model_loaded: _check_ollama called on its own
CallCheckOllama ==
    /\ last = Idle
    /\ \E probe \in ProbeResponses \cup {Unused} :
          LET c == _check_ollama(ollama_available, probe)
          IN  /\ Reached(c.probed, probe)
              /\ last' = [op |-> "check", probe |-> probe,
                          out |-> c, result |-> c.value,
                          cache_before |-> ollama_available,
                          probed |-> c.probed, posted |-> <<>>]
              /\ ollama_available' = c.cache
    /\ UNCHANGED <<products, orders, requests>>

\* the products a client creates
NewProducts ==
    {[title |-> title, product_description |-> <<>>, category |-> "Electronics",
      rating |-> 0, price |-> 100, discount |-> 0, stock |-> 1] : title \in {<<"a">>, <<"b">>}}

\* the bodies of a PUT: the fields that were set
Updates ==
    { [price |-> 200],
      [stock |-> 1],
      [price |-> 300, stock |-> 2],
      [title |-> <<"b">>],
      [category |-> "Home"],
      [category |-> "Home", price |-> 200] }

\* POST /products: CRUDProduct.create
CallCreate ==
    /\ last = Idle
    /\ Len(products) <= MaxVaried
    /\ \E obj_in \in NewProducts,
          probe \in ProbeResponses \cup {Unused}, embed \in EmbedResponses \cup {Unused} :
          LET r == create(products, obj_in, ollama_available, probe, embed)
          IN  /\ Reached(r.probed, probe)
              /\ Reached(r.posted # <<>>, embed)
              /\ last' = [op |-> "create", obj_in |-> obj_in,
                          probe |-> probe, embed |-> embed,
                          out |-> r, before |-> products,
                          cache_before |-> ollama_available,
                          probed |-> r.probed, posted |-> r.posted]
              /\ products' = r.table
              /\ ollama_available' = r.cache
    /\ UNCHANGED <<orders, requests>>

\* PUT /products/{product_id}: CRUDProduct.update
CallUpdate ==
    /\ last = Idle
    /\ \E id \in DOMAIN products, update_data \in Updates,
          probe \in ProbeResponses \cup {Unused}, embed \in EmbedResponses \cup {Unused} :
          LET r == update(products, id, update_data, ollama_available, probe, embed)
          IN  /\ Reached(r.probed, probe)
              /\ Reached(r.posted # <<>>, embed)
              /\ last' = [op |-> "update", id |-> id, update_data |-> update_data,
                          probe |-> probe, embed |-> embed,
                          out |-> r, before |-> products,
                          cache_before |-> ollama_available,
                          probed |-> r.probed, posted |-> r.posted]
              /\ products' = r.table
              /\ ollama_available' = r.cache
    /\ UNCHANGED <<orders, requests>>

\* the caller repeats the search that has just returned, with the same
\* arguments, against the same table; the provider and the datastore answer
\* the second call as they then are
RepeatSemanticSearch ==
    /\ last.op = "search"
    /\ \E probe \in ProbeResponses \cup {Unused}, embed \in EmbedResponses \cup {Unused},
          db \in DbBehaviours \cup {Unused} :
          LET r == semantic_search(products, ollama_available, last.query_text,
                                   last.limit, last.category, last.min_price,
                                   last.max_price, last.min_similarity,
                                   probe, embed, db)
          IN  /\ Reached(r.probed, probe)
              /\ Reached(r.posted # <<>>, embed)
              /\ Reached(r.queried, db)
              /\ last' = [op |-> "repeat", first |-> last,
                          query_text |-> last.query_text, limit |-> last.limit,
                          category |-> last.category, min_price |-> last.min_price,
                          max_price |-> last.max_price,
                          min_similarity |-> last.min_similarity,
                          probe |-> probe, embed |-> embed, db |-> db,
                          out |-> r, result |-> r.result,
                          cache_before |-> ollama_available,
                          probed |-> r.probed, posted |-> r.posted]
              /\ ollama_available' = r.cache
    /\ UNCHANGED <<products, orders, requests>>


Users == {1, 2}

\* order tables to start from: none, one order of each user, and (next to the
\* table of the first two profiles) a user with one order more than a page of
\* get_by_user holds, the oldest or the newest of them for another product
\* than the rest
OrderRow(user_id, product_id) ==
    [user_id |-> user_id, product_id |-> product_id, quantity |-> 1,
     total_amount |-> 100, status |-> "completed"]

OrderHistories(P) ==
    {<<>>}
      \cup {<<OrderRow(1, Len(P)), OrderRow(2, 1)>> : x \in {1} \cap DOMAIN P}
      \cup {[j \in 1..(OrdersPageLimit + 1) |->
                OrderRow(1, IF j = far THEN 2 ELSE 1)] :
                far \in {y \in {1, OrdersPageLimit + 1} : P = CycleCatalog(2)}}

\* GET /recommendations/personalized
CallPersonalized ==
    /\ last = Idle
    /\ \E wishlist \in Wishlists(products), current_user \in Users,
          limit \in 1..MaxLimit, min_similarity \in MinSimilarities,
          strategy \in Strategies, exclude_purchased \in BOOLEAN,
          row_order \in RowOrders, db \in DbBehaviours \cup {Unused} :
          LET e == personalized(products, orders, wishlist, current_user, limit,
                                strategy, min_similarity, exclude_purchased,
                                row_order, db)
          IN  /\ Reached(e.out.queried, db)
              /\ last' = [op |-> "personalized", wishlist |-> wishlist,
                          current_user |-> current_user, limit |-> limit,
                          min_similarity |-> min_similarity, strategy |-> strategy,
                          exclude_purchased |-> exclude_purchased,
                          row_order |-> row_order, db |-> db,
                          purchased |-> e.purchased_product_ids,
                          path |-> RecommendationPath(wishlist, strategy),
                          out |-> e.out, result |-> e.out.result,
                          status_code |-> e.status_code, response |-> e.response]
    /\ UNCHANGED <<products, ollama_available, orders, requests>>


\* the products that orders are placed for, and an id that no product has
OrderProducts == {1, 2}
MissingProduct == NumProfiles + 1

\* POST /orders
CallCreateOrder ==
    /\ last = Idle
    /\ Len(orders) < MaxOrders
    /\ \E current_user \in Users, product_id \in OrderProducts \cup {MissingProduct},
          quantity \in 1..MaxQuantity :
          \E total_amount \in
                IF product_id \in DOMAIN products
                THEN StoredTotals(quantity, UnitPrice(products[product_id]))
                ELSE {0} :
              LET r == create_order(products, orders, product_id, quantity,
                                    current_user, total_amount)
              IN  /\ last' = [op |-> "create_order", current_user |-> current_user,
                              product_id |-> product_id, quantity |-> quantity,
                              status_code |-> r.status_code,
                              products_before |-> products, orders_before |-> orders]
                  /\ products' = r.products
                  /\ orders' = r.orders
    /\ UNCHANGED <<ollama_available, requests>>

\* PUT /orders/{order_id}/status
CallUpdateOrderStatus ==
    /\ last = Idle
    /\ \E current_user \in Users, order_id \in 1..(Len(orders) + 1),
          status \in OrderStatuses :
          LET r == update_order_status(products, orders, order_id, status, current_user)
          IN  /\ last' = [op |-> "update_order_status", current_user |-> current_user,
                          order_id |-> order_id, status |-> status,
                          status_code |-> r.status_code,
                          products_before |-> products, orders_before |-> orders]
              /\ products' = r.products
              /\ orders' = r.orders
    /\ UNCHANGED <<ollama_available, requests>>

\* DELETE /orders/{order_id}
CallCancelOrder ==
    /\ last = Idle
    /\ \E current_user \in Users, order_id \in 1..(Len(orders) + 1) :
          LET r == cancel_order(products, orders, order_id, current_user)
          IN  /\ \A i \in DOMAIN products : r.products[i].stock <= MaxStock
              /\ last' = [op |-> "cancel_order", current_user |-> current_user,
                          order_id |-> order_id,
                          status_code |-> r.status_code,
                          products_before |-> products, orders_before |-> orders]
              /\ products' = r.products
              /\ orders' = r.orders
    /\ UNCHANGED <<ollama_available, requests>>


(* POST /orders step by step: each request has its own session; requests of  *)
(* different clients interleave between the statements that reach the         *)
(* datastore.  After a commit the session's objects are expired, so that      *)
(* db_product.stock is read again before it is decremented.                   *)

\* db_product = product.get(...), and the 404 and 400 checks
BeginCreateOrder ==
    /\ Len(requests) < MaxRequests
    /\ \E current_user \in Users, product_id \in OrderProducts \cup {MissingProduct},
          quantity \in 1..MaxQuantity :
          LET refused == CheckOrder(products, product_id, quantity)
          IN  requests' = Append(requests,
                  [current_user |-> current_user, product_id |-> product_id,
                   quantity |-> quantity,
                   unit_price |-> IF refused = 404 THEN 0
                                  ELSE UnitPrice(products[product_id]),
                   stock |-> IF refused = 404 THEN 0 ELSE products[product_id].stock,
                   status_code |-> refused,
                   pc |-> IF refused = 0 THEN "create_with_total" ELSE "done"])
    /\ UNCHANGED <<products, ollama_available, last, orders>>

\* order.create_with_total(...): the order is inserted and committed
InsertOrder ==
    \E k \in DOMAIN requests :
        /\ requests[k].pc = "create_with_total"
        /\ \E total_amount \in StoredTotals(requests[k].quantity, requests[k].unit_price) :
              orders' = create_with_total(orders, requests[k].product_id,
                                          requests[k].quantity,
                                          requests[k].current_user, total_amount)
        /\ requests' = [requests EXCEPT ![k].pc = "read_stock"]
        /\ UNCHANGED <<products, ollama_available, last>>

\* db_product.stock -= order_in.quantity, the read: the expired row is loaded
ReloadStock ==
    \E k \in DOMAIN requests :
        /\ requests[k].pc = "read_stock"
        /\ requests' = [requests EXCEPT ![k].stock = products[requests[k].product_id].stock,
                                        ![k].pc = "write_stock"]
        /\ UNCHANGED <<products, ollama_available, last, orders>>

\* db_product.stock -= order_in.quantity, the write, and db.commit()
WriteStock ==
    \E k \in DOMAIN requests :
        /\ requests[k].pc = "write_stock"
        /\ products' = [products EXCEPT ![requests[k].product_id].stock =
                                            requests[k].stock - requests[k].quantity]
        /\ requests' = [requests EXCEPT ![k].pc = "done", ![k].status_code = 201]
        /\ UNCHANGED <<ollama_available, last, orders>>

---------------------------------------------------------------------------
(* Specifications *)

Init == InitWith(SmallCatalogs)

Next == CallSemanticSearch \/ CallRecommendations \/ Return

Spec == Init /\ [][Next]_vars

InitRecommend == InitWith(SmallCatalogs \cup LargeCatalogs)

NextRecommend == CallRecommendations \/ Return

SpecRecommend == InitRecommend /\ [][NextRecommend]_vars

InitText == InitWith({CycleCatalog(NumProfiles)})

NextText == CallPreprocessQuery \/ CallSemanticSearch \/ Return

SpecText == InitText /\ [][NextText]_vars

InitRepeat == InitWith({CycleCatalog(NumProfiles)})

NextRepeat == CallSemanticSearch \/ RepeatSemanticSearch \/ Return

SpecRepeat == InitRepeat /\ [][NextRepeat]_vars

InitService == InitWith({CycleCatalog(NumProfiles)})

NextService == CallCheckOllama \/ CallGenerateEmbedding \/ CallSemanticSearch \/ Return

SpecService == InitService /\ [][NextService]_vars

InitCatalog == InitWith(SmallCatalogs)

NextCatalog == CallCreate \/ CallUpdate \/ Return

SpecCatalog == InitCatalog /\ [][NextCatalog]_vars

InitPersonalized ==
    /\ products \in SmallCatalogs
    /\ ollama_available = "None"
    /\ last = Idle
    /\ orders \in OrderHistories(products)
    /\ requests = <<>>

NextPersonalized == CallPersonalized \/ Return

SpecPersonalized == InitPersonalized /\ [][NextPersonalized]_vars

InitOrders == InitWith({CycleCatalog(NumProfiles)})

NextOrders == CallCreateOrder \/ CallUpdateOrderStatus \/ CallCancelOrder \/ Return

SpecOrders == InitOrders /\ [][NextOrders]_vars

InitConcurrent == InitWith({CycleCatalog(NumProfiles)})

NextConcurrent == BeginCreateOrder \/ InsertOrder \/ ReloadStock \/ WriteStock

SpecConcurrent == InitConcurrent /\ [][NextConcurrent]_vars

---------------------------------------------------------------------------
(* Claims: what the formulas below speak about *)

IsRecommend == last.op = "recommend"
IsSearch == last.op = "search"

\* the call ran the centroid ranking up to its threshold
RankedSemantically == IsRecommend /\ last.path = "semantic" /\ last.out.ranked

\* the products with an embedding that are neither in the wishlist nor purchased
EligibleNow ==
    {i \in DOMAIN products :
        /\ products[i].embedding # <<>>
        /\ \A k \in 1..Len(last.wishlist) : last.wishlist[k] # i
        /\ \A k \in 1..Len(last.purchased) : last.purchased[k] # i}

EmbeddedNow == {i \in DOMAIN products : products[i].embedding # <<>>}

WishlistEmbedded ==
    {k \in 1..Len(last.wishlist) : products[last.wishlist[k]].embedding # <<>>}

\* C1: in the centroid ranking the effective threshold is
\* max(0.05, min_similarity / 2) when fewer than 20 candidates are eligible and
\* min_similarity > 0, and min_similarity itself otherwise; with 15 embedded
\* products, 3 of them in the wishlist, and min_similarity 0.4 it is 0.2.
C1_EffectiveThreshold ==
    RankedSemantically =>
        LET n == Cardinality(EligibleNow)
            asked == last.min_similarity
            used == last.out.effective_threshold
        IN  /\ (n < 20 /\ asked > 0) =>
                  /\ 2 * used >= asked
                  /\ used >= 50
                  /\ (2 * used = asked \/ used = 50)
            /\ ~(n < 20 /\ asked > 0) => used = asked
            /\ ( /\ Cardinality(EmbeddedNow) = 15
                 /\ Cardinality(WishlistEmbedded) = 3
                 /\ last.purchased = <<>>
                 /\ asked = 400 ) => used = 200

\* the spec's scenario: 15 embedded, 3 in the wishlist, 0.4 asked, 0.2 used
C1_Witness ==
    /\ RankedSemantically
    /\ Cardinality(EmbeddedNow) = 15
    /\ Cardinality(WishlistEmbedded) = 3
    /\ Cardinality(EligibleNow) = 12
    /\ last.min_similarity = 400
    /\ last.out.effective_threshold = 200

\* C2: when the centroid ranking returns (wishlist with an embedded product,
\* limit >= 1, the datastore answers), an empty thresholded result under a
\* threshold > 0 is replaced by the ranking without threshold, so the result
\* is non-empty whenever a candidate is eligible.
C2_FallbackNonEmpty ==
    (RankedSemantically /\ last.limit >= 1 /\ WishlistEmbedded # {}) =>
        LET enough == {i \in EligibleNow :
                          ScoreGE(Similarity(last.out.avg_embedding.sum,
                                             products[i].embedding),
                                  [num |-> last.out.effective_threshold,
                                   sq |-> 1000000])}
        IN  /\ EligibleNow # {} => last.result # <<>>
            /\ last.out.no_threshold_retry <=>
                  (enough = {} /\ last.out.effective_threshold > 0)
            /\ last.out.no_threshold_retry =>
                  /\ Len(last.result) = Min(last.limit, Cardinality(EligibleNow))
                  /\ \A k \in 1..Len(last.result) : last.result[k].id \in EligibleNow

\* the retry ran and found products that the threshold had kept out
C2_Witness ==
    /\ RankedSemantically
    /\ last.out.no_threshold_retry
    /\ last.out.effective_threshold > 0
    /\ last.result # <<>>

\* the scores of a result never rise from one entry to the next
SortedDescending(result) ==
    \A k \in 1..(Len(result) - 1) : ScoreGE(result[k].score, result[k + 1].score)

\* every score of a result is at least t thousandths
AllAtLeast(result, t) ==
    \A k \in 1..Len(result) : ScoreGE(result[k].score, [num |-> t, sq |-> 1000000])

TopRated(result, S, n) ==
    /\ Len(result) = Min(n, Cardinality(S))
    /\ \A k \in 1..Len(result) :
          /\ result[k].id \in S
          /\ result[k].score.num = products[result[k].id].rating
          /\ result[k].score.sq = 500 * 500
    /\ \A a, b \in 1..Len(result) :
          /\ result[a].id = result[b].id => a = b
          /\ a < b => products[result[a].id].rating >= products[result[b].id].rating
    /\ \A i \in S :
          (\A k \in 1..Len(result) : result[k].id # i) =>
              \A k \in 1..Len(result) : products[result[k].id].rating >= products[i].rating

\* C4: with an empty wishlist, whatever the strategy, the result (when the
\* datastore answers) is the top-limit products by rating descending, each
\* scored rating / 5.0, and the embedding provider is not invoked.
C4_EmptyWishlistPopular ==
    (IsRecommend /\ last.wishlist = <<>>) =>
        /\ last.db # "error" => TopRated(last.result, DOMAIN products, last.limit)
        /\ ~last.probed
        /\ last.posted = <<>>
        /\ ollama_available = last.cache_before

\* the fallback under the category strategy, cutting a table of two at one
C4_Witness ==
    /\ IsRecommend
    /\ last.wishlist = <<>>
    /\ last.strategy = "category"
    /\ last.limit = 1
    /\ Len(last.result) = 1
    /\ Cardinality(DOMAIN products) = 2
    /\ products[1].rating # products[2].rating

WishlistCount(c) ==
    Cardinality({k \in 1..Len(last.wishlist) : products[last.wishlist[k]].category = c})

\* the products of category c that are neither in the wishlist nor purchased
CategoryRows(c) ==
    {i \in DOMAIN products :
        /\ products[i].category = c
        /\ \A k \in 1..Len(last.wishlist) : last.wishlist[k] # i
        /\ \A k \in 1..Len(last.purchased) : last.purchased[k] # i}

IsCategoryCall ==
    IsRecommend /\ last.strategy = "category" /\ last.wishlist # <<>> /\ last.db # "error"

\* C6 as stated: under strategy "category" with a non-empty wishlist the
\* selected category is one with the most occurrences among the categories of
\* the wishlist products, and the result is the top-limit products of that
\* category outside exclude_ids, by rating descending, each scored rating / 5.0.
C6_AsStated ==
    IsCategoryCall =>
        \E k \in 1..Len(last.wishlist) :
            LET c == products[last.wishlist[k]].category
            IN  /\ \A m \in 1..Len(last.wishlist) :
                      WishlistCount(products[last.wishlist[m]].category) <= WishlistCount(c)
                /\ TopRated(last.result, CategoryRows(c), last.limit)

\* C6: under strategy "category" with a non-empty wishlist (the datastore
\* answering) the selected category is one with the most occurrences among the
\* non-empty categories of the wishlist products, and the result is the
\* top-limit products of that category outside exclude_ids, by rating
\* descending, each scored rating / 5.0; when no wishlist product has a
\* non-empty category nothing is selected and the result is empty.  The
\* wishlist [Electronics, Electronics, Home] selects Electronics.
C6_MostCommonCategory ==
    IsCategoryCall =>
        LET named == {k \in 1..Len(last.wishlist) :
                         products[last.wishlist[k]].category # ""}
        IN  /\ named = {} => (last.result = <<>> /\ last.out.category = "<None>")
            /\ named # {} =>
                  /\ \E k \in named :
                        products[last.wishlist[k]].category = last.out.category
                  /\ \A k \in named :
                        WishlistCount(products[last.wishlist[k]].category)
                            <= WishlistCount(last.out.category)
                  /\ TopRated(last.result, CategoryRows(last.out.category), last.limit)
            /\ ( /\ Len(last.wishlist) = 3
                 /\ WishlistCount("Electronics") = 2
                 /\ WishlistCount("Home") = 1 ) => last.out.category = "Electronics"

\* the spec's scenario, with Home met first: [Home, Electronics, Electronics]
C6_Witness ==
    /\ IsCategoryCall
    /\ Len(last.wishlist) = 3
    /\ products[last.wishlist[1]].category = "Home"
    /\ WishlistCount("Electronics") = 2
    /\ last.out.category = "Electronics"
    /\ Len(last.result) = 2

\* the embedding provider or the datastore failed during the search
SearchFailure ==
    \/ last.probe \in {"no_model", "http_error", "unreachable"}
    \/ last.embed \in {"http_error", "timeout", "unreachable"}
    \/ last.db = "error"
    \/ (last.cache_before = "False" /\ last.out.called)

\* C7: semantic_search propagates no error: when the provider is unavailable,
\* times out or answers with a status other than 200, or the datastore query
\* fails, the call returns the empty list.
C7_SearchNeverRaises ==
    IsSearch =>
        /\ ~last.out.raised
        /\ SearchFailure => (last.result = <<>> /\ last.out.caught)

\* the embed request timed out after a successful probe
C7_Witness ==
    /\ IsSearch
    /\ last.probe = "ok"
    /\ last.embed = "timeout"
    /\ last.out.caught
    /\ last.result = <<>>

\* C8: get_personalized_recommendations propagates no error raised inside the
\* ranking of any strategy (popularity, centroid, category): the error is
\* caught and the call returns the empty list.
C8_RecommendNeverRaises ==
    IsRecommend =>
        /\ ~last.out.raised
        /\ last.db = "error" => (last.result = <<>> /\ last.out.caught)

\* the datastore failed during the category ranking of a table that had
\* products to return
C8_Witness ==
    /\ IsRecommend
    /\ last.path = "category"
    /\ last.db = "error"
    /\ last.out.caught
    /\ CategoryRows(last.out.category) # {}

\* C9: a query text that is empty, or of whitespace only, makes
\* semantic_search return the empty list without the availability probe and
\* without the embed request.
C9_EmptyQueryNoProvider ==
    (IsSearch /\ \A k \in 1..Len(last.query_text) : last.query_text[k] \in {" ", "\t"}) =>
        /\ last.result = <<>>
        /\ ~last.probed
        /\ last.posted = <<>>
        /\ ~last.out.called
        /\ ollama_available = last.cache_before

\* a query of whitespace only, before any probe, on a table with embeddings
C9_Witness ==
    /\ IsSearch
    /\ Len(last.query_text) = 2
    /\ \A k \in 1..Len(last.query_text) : last.query_text[k] \in {" ", "\t"}
    /\ ollama_available = "None"
    /\ \E i \in DOMAIN products : products[i].embedding # <<>>

IsPreprocess == last.op = "preprocess"

Blank(c) == c \in {" ", "\t"}

\* the characters of a text that are not whitespace, in order
RECURSIVE Letters(_)
Letters(text) ==
    IF text = <<>> THEN <<>>
    ELSE IF Blank(Head(text)) THEN Letters(Tail(text))
    ELSE <<Head(text)>> \o Letters(Tail(text))

\* the places where a word of the text starts
WordStarts(text) ==
    {k \in 1..Len(text) : ~Blank(text[k]) /\ (k = 1 \/ Blank(text[k - 1]))}

\* how many letters precede place k of the text
LettersBefore(text, k) == Cardinality({m \in 1..(k - 1) : ~Blank(text[m])})

LowerCase ==
    [c \in {"A", "B", "G", "I", "L", "M", "N"} |->
        CASE c = "A" -> "a" [] c = "B" -> "b" [] c = "G" -> "g" [] c = "I" -> "i"
          [] c = "L" -> "l" [] c = "M" -> "m" [] c = "N" -> "n"]

\* out is raw trimmed, its whitespace runs made single spaces, lowercased
Normalised(raw, out) ==
    /\ out # <<>> => (~Blank(out[1]) /\ ~Blank(out[Len(out)]))
    /\ \A k \in 1..Len(out) : Blank(out[k]) => (out[k] = " " /\ ~Blank(out[k + 1]))
    /\ Len(Letters(out)) = Len(Letters(raw))
    /\ \A k \in 1..Len(Letters(raw)) :
          Letters(out)[k] = IF Letters(raw)[k] \in DOMAIN LowerCase
                            THEN LowerCase[Letters(raw)[k]]
                            ELSE Letters(raw)[k]
    /\ {LettersBefore(out, k) : k \in WordStarts(out)}
           = {LettersBefore(raw, k) : k \in WordStarts(raw)}

ExampleRaw ==
    <<" ", " ", "L", "a", "p", "t", "o", "p", " ", " ", " ",
      "G", "A", "M", "I", "N", "G", " ">>

ExamplePreprocessed ==
    <<"l", "a", "p", "t", "o", "p", " ", "g", "a", "m", "i", "n", "g">>

\* C10: _preprocess_query returns its input without leading and trailing
\* whitespace, every inner run of whitespace made one space, all letters
\* lowercased ("  Laptop   GAMING " gives "laptop gaming"); applied to its own
\* result it changes nothing; and semantic_search hands the preprocessed text
\* to the embedding service.
C10_PreprocessQuery ==
    /\ IsPreprocess =>
          /\ Normalised(last.query_text, last.result)
          /\ _preprocess_query(last.result) = last.result
          /\ last.query_text = ExampleRaw => last.result = ExamplePreprocessed
    /\ (IsSearch /\ last.out.called) =>
          /\ Normalised(last.query_text, last.out.embed_input)
          /\ last.posted # <<>> => Tail(last.posted) = last.out.embed_input

\* the spec's example went through _preprocess_query
C10_Witness ==
    /\ IsPreprocess
    /\ last.query_text = ExampleRaw
    /\ last.result = ExamplePreprocessed

---------------------------------------------------------------------------
(* Claims C11 - C20 *)

\* the search went as far as its query and the datastore answered
SearchAnswered == IsSearch /\ last.out.queried /\ ~last.out.caught

\* the products with an embedding that pass the filters of the search as the
\* code applies them: a category that is None or empty is no filter
SearchAdmitted ==
    {i \in DOMAIN products :
        /\ products[i].embedding # <<>>
        /\ last.category \notin {"<None>", ""} => products[i].category = last.category
        /\ last.min_price # -1 => products[i].price >= last.min_price
        /\ last.max_price # -1 => products[i].price <= last.max_price}

\* the ids of a result
ResultIds(result) == {result[k].id : k \in 1..Len(result)}

\* no product appears twice in a result
NoDuplicates(result) == \A a, b \in 1..Len(result) : result[a].id = result[b].id => a = b

\* C11: with min_similarity = 0 no product is kept out for its score: the
\* search returns min(limit, n) of the n embedded products that pass its
\* filters, and the centroid ranking min(limit, n) of the n eligible products,
\* its effective threshold being 0 and no retry being needed.
C11_ZeroThresholdAdmitsAll ==
    /\ (SearchAnswered /\ last.min_similarity = 0) =>
          /\ ResultIds(last.result) \subseteq SearchAdmitted
          /\ NoDuplicates(last.result)
          /\ Len(last.result) = Min(last.limit, Cardinality(SearchAdmitted))
    /\ (RankedSemantically /\ last.min_similarity = 0) =>
          /\ last.out.effective_threshold = 0
          /\ ~last.out.no_threshold_retry
          /\ ResultIds(last.result) \subseteq EligibleNow
          /\ NoDuplicates(last.result)
          /\ Len(last.result) = Min(last.limit, Cardinality(EligibleNow))

\* a search with min_similarity = 0 that returned a product of negative score
C11_Witness ==
    /\ SearchAnswered
    /\ last.min_similarity = 0
    /\ \E k \in 1..Len(last.result) : last.result[k].score.num < 0

IsRepeat == last.op = "repeat"

\* the datastore failed in neither call and did not order equal scores in two
\* different ways
SameDatastoreAnswers ==
    /\ last.db # "error"
    /\ last.first.db # "error"
    /\ {last.db, last.first.db} # {"asc", "desc"}

\* C12 as stated: against an unchanged table the repeated search returns the
\* ordered result of the first, whatever the provider did before and between
\* the two calls.
C12_AsStated == (IsRepeat /\ SameDatastoreAnswers) => last.result = last.first.result

\* C12: the repeated search returns the ordered result of the first when, in
\* both calls, the provider answered (the same vector for the same text) and
\* the datastore answered with the same order among rows of equal score; a
\* call in which the provider or the datastore failed returns the empty list
\* whatever the other call returned; and once the probe of the first call has
\* failed, the repeated call with a non-empty query sends no request and
\* returns the empty list.
C12_RepeatedSearch ==
    IsRepeat =>
        /\ (~last.first.out.caught /\ ~last.out.caught /\ last.db = last.first.db) =>
              last.result = last.first.result
        /\ last.out.caught => last.result = <<>>
        /\ last.first.out.caught => last.first.result = <<>>
        /\ (last.first.probe \in {"no_model", "http_error", "unreachable"}) =>
              /\ last.out.called
              /\ last.out.caught
              /\ ~last.probed
              /\ last.posted = <<>>
              /\ last.result = <<>>

\* both calls were answered and gave the same two products
C12_Witness ==
    /\ IsRepeat
    /\ ~last.first.out.caught
    /\ ~last.out.caught
    /\ last.first.cache_before = "None"
    /\ Len(last.first.result) = 2
    /\ last.result = last.first.result

\* component d summed over the first k wishlist products that have an embedding
RECURSIVE WishlistSum(_, _)
WishlistSum(d, k) ==
    IF k = 0
    THEN 0
    ELSE LET e == products[last.wishlist[k]].embedding
         IN  (IF e = <<>> THEN 0 ELSE e[d]) + WishlistSum(d, k - 1)

\* C13: in the centroid ranking of a wishlist with an embedded product the
\* centroid has as many components as each embedding of the wishlist, and
\* component d is the sum of component d over the wishlist products that have
\* an embedding, divided by the number of those products.
C13_CentroidIsMean ==
    RankedSemantically =>
        LET avg == last.out.avg_embedding
        IN  /\ WishlistEmbedded # {}
            /\ avg.den = Cardinality(WishlistEmbedded)
            /\ \A k \in WishlistEmbedded :
                  Len(avg.sum) = Len(products[last.wishlist[k]].embedding)
            /\ \A d \in 1..Len(avg.sum) :
                  avg.sum[d] = WishlistSum(d, Len(last.wishlist))

\* three embeddings <<2,1>>, <<1,2>>, <<-2,1>> averaged to <<1/3, 4/3>>
C13_Witness ==
    /\ RankedSemantically
    /\ Cardinality(WishlistEmbedded) = 3
    /\ last.out.avg_embedding = [sum |-> <<1, 4>>, den |-> 3]

IsEmbed == last.op = "embed"
IsCheck == last.op = "check"

\* C14 as stated: a vector from the provider whose length is not
\* EMBEDDING_DIMENSION makes generate_embedding fail with an error; it is not
\* returned.  (The other half of the claim, wishlist embeddings of unequal
\* length, needs a table that its Vector column does not admit.)
C14_AsStated ==
    (IsEmbed /\ last.embed = "wrong_dimension") =>
        /\ last.out.raised
        /\ Len(last.result) \in {0, EMBEDDING_DIMENSION}

\* C15: once _check_ollama has recorded a value, that value never changes and
\* no later call contacts the provider for a probe: the probe is sent only
\* while nothing is recorded, and its outcome is then recorded; a later
\* _check_ollama returns the recorded value, and generate_embedding on a
\* non-blank text fails without a request when it is "unavailable" and sends
\* its embed request when it is "available".
C15_ProbeOnce ==
    [][ /\ ollama_available # "None" => ollama_available' = ollama_available
        /\ last'.op \in {"check", "embed", "search"} =>
              /\ last'.probed => (ollama_available = "None" /\ ollama_available' # "None")
              /\ ollama_available # "None" => ~last'.probed
        /\ (last'.op = "check" /\ ollama_available # "None") =>
              last'.result = (ollama_available = "True")
        /\ (last'.op = "embed" /\ Strip(last'.text) # <<>>) =>
              /\ ollama_available = "False" => (last'.out.raised /\ last'.posted = <<>>)
              /\ ollama_available = "True" => last'.posted # <<>>
      ]_vars

\* _check_ollama answered from a recorded failure, without a probe
C15_Witness ==
    /\ IsCheck
    /\ last.cache_before = "False"
    /\ ~last.probed
    /\ last.result = FALSE
    /\ ollama_available = "False"

\* C16: for a non-empty wishlist, under every strategy, no returned product
\* is in the wishlist or among the purchased ids, and on the centroid path no
\* returned product is without embedding.
C16_ExcludedNeverReturned ==
    (IsRecommend /\ last.wishlist # <<>>) =>
        \A k \in 1..Len(last.result) :
            LET id == last.result[k].id
            IN  /\ \A m \in 1..Len(last.wishlist) : last.wishlist[m] # id
                /\ \A m \in 1..Len(last.purchased) : last.purchased[m] # id
                /\ last.path = "semantic" => products[id].embedding # <<>>

\* the purchased product has the embedding of the wishlist's only product and
\* the highest id, so a ranking that did not exclude it would put it first
C16_Witness ==
    /\ IsRecommend
    /\ last.path = "semantic"
    /\ Len(last.wishlist) = 1
    /\ last.purchased # <<>>
    /\ last.db = "desc"
    /\ products[last.purchased[1]].embedding = products[last.wishlist[1]].embedding
    /\ last.purchased[1] # last.wishlist[1]
    /\ last.result # <<>>
    /\ products[last.result[1].id].embedding = products[last.wishlist[1]].embedding

\* the score of product i against the query vector of the search
SearchScore(i) == Similarity(ProviderVector(last.posted), products[i].embedding)

\* the search got its query vector from the provider and its rows from the
\* datastore
SearchSucceeded == SearchAnswered /\ last.embed = "ok"

\* result is the first n of S by score descending: n entries (all of S when
\* it has fewer), each of S with its score, none twice, scores never rising,
\* and no product of S left out that scores above a returned one
TopScored(result, S, n) ==
    /\ Len(result) = Min(n, Cardinality(S))
    /\ ResultIds(result) \subseteq S
    /\ NoDuplicates(result)
    /\ \A k \in 1..Len(result) : result[k].score = SearchScore(result[k].id)
    /\ SortedDescending(result)
    /\ \A i \in S \ ResultIds(result) :
          \A k \in 1..Len(result) : ScoreGE(result[k].score, SearchScore(i))

\* the products at or above min_similarity, all of them when it is 0
AboveSearchThreshold ==
    {i \in DOMAIN products :
        /\ products[i].embedding # <<>>
        /\ last.min_similarity > 0 =>
              ScoreGE(SearchScore(i), [num |-> last.min_similarity, sq |-> 1000000])}

\* C17 as stated: when the provider succeeds the search returns the first
\* limit entries, by score descending, of the products with an embedding, at
\* or above min_similarity when it is > 0, that satisfy every filter supplied:
\* category equal to the one given, price >= min_price, price <= max_price.
C17_AsStated ==
    SearchSucceeded =>
        /\ Len(last.result) <= last.limit
        /\ TopScored(last.result,
                     {i \in AboveSearchThreshold :
                         /\ last.category # "<None>" => products[i].category = last.category
                         /\ last.min_price # -1 => products[i].price >= last.min_price
                         /\ last.max_price # -1 => products[i].price <= last.max_price},
                     last.limit)

\* C17: when the provider answers with a vector of the column's length and
\* the datastore answers, the search returns the first limit entries, by
\* score descending, of the products with an embedding, at or above
\* min_similarity when it is > 0, that satisfy the filters given, a category
\* given as the empty string being no filter; never more than limit entries.
C17_SearchResult ==
    SearchSucceeded =>
        /\ Len(last.result) <= last.limit
        /\ TopScored(last.result, AboveSearchThreshold \cap SearchAdmitted, last.limit)

\* two Electronics products pass the threshold and the limit keeps the better
C17_Witness ==
    /\ SearchSucceeded
    /\ last.category = "Electronics"
    /\ last.min_similarity > 0
    /\ last.limit = 1
    /\ Cardinality(AboveSearchThreshold \cap SearchAdmitted) = 2
    /\ Len(last.result) = 1
    /\ \E i \in SearchAdmitted : ~ScoreGE(SearchScore(i), last.result[1].score)

IsCreate == last.op = "create"
IsUpdate == last.op = "update"

\* the update carries one of title, product_description, category, brand, color
CarriesEmbeddingField ==
    DOMAIN last.update_data
        \cap {"title", "product_description", "category", "brand", "color"} # {}

\* C18 as stated: create stores the new product with an embedding generated
\* in document mode; an update that carries one of title, product_description,
\* category, brand, color regenerates the embedding of its product; an update
\* that carries none of them leaves the stored embedding as it was.
C18_AsStated ==
    /\ IsCreate =>
          /\ ~last.out.raised
          /\ Len(products) = Len(last.before) + 1
          /\ last.posted # <<>>
          /\ Head(last.posted) = "retrieval_document: "
    /\ (IsUpdate /\ CarriesEmbeddingField) =>
          /\ ~last.out.raised
          /\ last.out.regenerated
          /\ last.posted # <<>>
          /\ Head(last.posted) = "retrieval_document: "
    /\ (IsUpdate /\ ~CarriesEmbeddingField) =>
          /\ products[last.id].embedding = last.before[last.id].embedding
          /\ last.posted = <<>>

ResponseNow ==
    RecommendationResult(last.result, last.limit, last.strategy, last.wishlist,
                         last.min_similarity)

\* C20 as stated: when the centroid ranking returned products through the
\* retry without threshold, or under a relaxed effective threshold, the
\* response tells it apart: no call of the same wishlist, purchased ids, limit
\* and strategy in which the requested min_similarity was applied as it is
\* (on this table or on a larger one) gets the same response.
C20_AsStated ==
    ( /\ RankedSemantically
      /\ last.result # <<>>
      /\ \/ last.out.no_threshold_retry
         \/ last.out.effective_threshold # last.min_similarity ) =>
        \A P2 \in LargeCatalogs \cup {products}, min2 \in MinSimilarities :
            LET alt == get_personalized_recommendations(
                           P2, last.wishlist, last.purchased, last.limit, min2,
                           last.strategy, last.db)
            IN  ( /\ Range(last.wishlist) \cup Range(last.purchased) \subseteq DOMAIN P2
                  /\ alt.ranked
                  /\ ~alt.no_threshold_retry
                  /\ alt.effective_threshold = min2 ) =>
                    RecommendationResult(alt.result, last.limit, last.strategy,
                                         last.wishlist, min2) # ResponseNow


---------------------------------------------------------------------------
(* Claims C21 - C30 *)

\* C21 as stated: every score returned by semantic_search and by
\* get_personalized_recommendations lies in [0, 1], so that ProductWithScore
\* accepts every returned pair.
C21_AsStated ==
    (IsSearch \/ IsRecommend) =>
        \A k \in 1..Len(last.result) : ProductWithScore(last.result[k].score)


\* the wishlist of the call is not empty and none of its products has an embedding
WishlistWithoutEmbeddings ==
    /\ IsRecommend
    /\ last.wishlist # <<>>
    /\ WishlistEmbedded = {}

\* C22: with a non-empty wishlist in which no product has an embedding, the
\* semantic, hybrid and unknown strategies return an empty list whatever the
\* table holds, and send no query to the datastore (no popularity ranking).
C22_NoEmbeddingsEmpty ==
    (WishlistWithoutEmbeddings /\ last.strategy \in {"semantic", "hybrid", "unknown_value"}) =>
        /\ last.result = <<>>
        /\ ~last.out.queried
        /\ ~last.out.raised /\ ~last.out.caught

\* C22 witness: such a call on a table that holds an eligible product with an
\* embedding and a rating
C22_Witness ==
    /\ WishlistWithoutEmbeddings
    /\ last.strategy = "unknown_value"
    /\ EligibleNow # {}
    /\ last.result = <<>>


IsPersonalized == last.op = "personalized"

\* the products for which the current user of the call has an order
OrderedByCurrentUser ==
    {orders[j].product_id : j \in {i \in DOMAIN orders : orders[i].user_id = last.current_user}}

\* C23 as stated: when /personalized is called with exclude_purchased = true,
\* no product of the response is one for which the current user has an order,
\* whatever the strategy, the wishlist and the number of the user's orders.
C23_AsStated ==
    (IsPersonalized /\ last.exclude_purchased /\ last.status_code = 200) =>
        \A k \in 1..Len(last.response.products) :
            last.response.products[k].id \notin OrderedByCurrentUser

\* the same for a non-empty wishlist only: the page of get_by_user
C23_AsStatedNonEmptyWishlist ==
    (IsPersonalized /\ last.wishlist # <<>>) => C23_AsStated


IsCreateOrder == last.op = "create_order"
IsUpdateOrderStatus == last.op = "update_order_status"
IsCancelOrder == last.op = "cancel_order"

\* the request changed neither the products nor the orders
NothingChanged == products = last.products_before /\ orders = last.orders_before

\* quantity * price * (1 - discount/100) of the request, in ten-thousandths of
\* a hundredth
ExactTotal ==
    last.quantity * last.products_before[last.product_id].price
        * (10000 - last.products_before[last.product_id].discount)

\* one order was added, pending, for the product, quantity and user of the
\* request, and the product's stock went down by exactly the quantity
OrderAccepted ==
    /\ last.status_code = 201
    /\ Len(orders) = Len(last.orders_before) + 1
    /\ SubSeq(orders, 1, Len(last.orders_before)) = last.orders_before
    /\ orders[Len(orders)].status = "pending"
    /\ orders[Len(orders)].product_id = last.product_id
    /\ orders[Len(orders)].quantity = last.quantity
    /\ orders[Len(orders)].user_id = last.current_user
    /\ products = [last.products_before EXCEPT ![last.product_id].stock = @ - last.quantity]

\* the three cases of create_order, with the total of an accepted order
\* constrained by TotalOk
CreateOrderCases(TotalOk) ==
    IsCreateOrder =>
        IF last.product_id \notin DOMAIN last.products_before
        THEN last.status_code = 404 /\ NothingChanged
        ELSE IF last.products_before[last.product_id].stock < last.quantity
        THEN last.status_code = 400 /\ NothingChanged
        ELSE OrderAccepted /\ TotalOk

\* C24 as stated: create_order on a missing product is rejected with 404 and
\* on a product with stock < quantity with 400, changing nothing; with
\* stock >= quantity it adds one pending order, lowers the stock by quantity,
\* and the order's total_amount is exactly quantity * price * (1 - discount/100).
C24_AsStated ==
    CreateOrderCases(orders[Len(orders)].total_amount * 10000 = ExactTotal)

\* C24: the same, with the total_amount that the order keeps being
\* quantity * price * (1 - discount/100) rounded to the nearest hundredth,
\* the scale of the column.
C24_CreateOrder ==
    CreateOrderCases(
        LET diff == orders[Len(orders)].total_amount * 10000 - ExactTotal
        IN  -5000 <= diff /\ diff <= 5000)

\* C24 witness: an order for all the stock that is left is accepted, and its
\* total is not a whole number of hundredths before it is stored
C24_Witness ==
    /\ IsCreateOrder
    /\ last.status_code = 201
    /\ last.products_before[last.product_id].stock = last.quantity
    /\ products[last.product_id].stock = 0
    /\ orders[Len(orders)].total_amount * 10000 # ExactTotal


\* the request is about an order that exists
OnExistingOrder ==
    /\ IsUpdateOrderStatus \/ IsCancelOrder
    /\ last.order_id \in DOMAIN last.orders_before

\* the request asks for the order to leave the status it has
AsksAnotherStatus ==
    \/ IsCancelOrder
    \/ IsUpdateOrderStatus /\ last.status # "completed"

\* what the request that has just returned did to an order that exists: another
\* user than its owner gets 403, its owner gets 400 when the order is completed
\* and another status is asked for, and in both cases nothing changed
OrderRejections ==
    OnExistingOrder =>
        LET db_order == last.orders_before[last.order_id]
        IN  /\ db_order.user_id # last.current_user =>
                  last.status_code = 403 /\ NothingChanged
            /\ ( /\ db_order.user_id = last.current_user
                 /\ db_order.status = "completed"
                 /\ AsksAnotherStatus ) =>
                  last.status_code = 400 /\ NothingChanged

\* C25: an order that is completed is completed in every later state; asking
\* for another status of a completed order, by update_order_status or by
\* cancel_order, is rejected with 400 and changes neither the order nor the
\* stock; a user who is not the owner of the order gets 403 and changes nothing.
C25_CompletedIsFinal ==
    [][ /\ \A j \in DOMAIN orders :
              orders[j].status = "completed" =>
                  j \in DOMAIN orders' /\ orders'[j] = orders[j]
        /\ OrderRejections'
      ]_vars

\* C25 witness: the owner of a completed order has asked for it to be
\* cancelled and got 400
C25_Witness ==
    /\ IsCancelOrder
    /\ last.order_id \in DOMAIN orders
    /\ orders[last.order_id].status = "completed"
    /\ orders[last.order_id].user_id = last.current_user
    /\ last.status_code = 400


RECURSIVE QuantityOf(_, _, _)
\* the total quantity of the first n orders for product i whose status is in S
QuantityOf(i, S, n) ==
    IF n = 0 THEN 0
    ELSE QuantityOf(i, S, n - 1)
           + (IF orders[n].product_id = i /\ orders[n].status \in S
              THEN orders[n].quantity ELSE 0)

\* the stock the product had before any order
InitialStock(i) == CycleCatalog(NumProfiles)[i].stock

\* C27 as stated: after any sequence of create_order, update_order_status and
\* cancel_order, the stock of each product plus the total quantity of its
\* orders that are not cancelled equals the product's initial stock.
C27_AsStated ==
    \A i \in DOMAIN products :
        products[i].stock + QuantityOf(i, {"pending", "completed"}, Len(orders))
            = InitialStock(i)


\* C28 as stated: under every interleaving of concurrent create_order requests
\* for the same product, the stock of a product is never negative and the
\* total quantity of the orders accepted for it never exceeds the stock that
\* was available.
C28_AsStated ==
    \A i \in DOMAIN products :
        /\ products[i].stock >= 0
        /\ QuantityOf(i, OrderStatuses, Len(orders)) <= InitialStock(i)


\* the query text of a search has a character that is not whitespace
NonBlankQuery(query_text) == \E k \in 1..Len(query_text) : query_text[k] \notin {" ", "\t"}

\* C29: once the probe has recorded the provider as unavailable, the record
\* stays in every later state, whatever operation of the service runs, and
\* every later semantic_search with a non-blank query returns the empty list
\* without a probe, without an embed request and without a query to the
\* datastore.
C29_UnavailableForGood ==
    [][ ollama_available = "False" =>
            /\ ollama_available' = "False"
            /\ (last'.op = "search" /\ NonBlankQuery(last'.query_text)) =>
                  /\ last'.result = <<>>
                  /\ ~last'.probed
                  /\ last'.posted = <<>>
                  /\ ~last'.out.queried
      ]_vars

\* C29 witness: a search with a non-blank query answered with the empty list
\* from a recorded failure, on a table with embeddings
C29_Witness ==
    /\ IsSearch
    /\ NonBlankQuery(last.query_text)
    /\ last.cache_before = "False"
    /\ last.result = <<>>
    /\ last.posted = <<>>
    /\ \E i \in DOMAIN products : products[i].embedding # <<>>


=============================================================================
